---- MODULE Spec2Model ----
(***************************************************************************)
(* gohttp: a command line HTTP client that records every request/response  *)
(* as a JSON file in a history directory and lists, shows and replays the  *)
(* records by display index.                                               *)
(*                                                                         *)
(* Strings are sequences of one-character strings, so that comparison,     *)
(* lower-casing, substring search and sanitisation are computed.           *)
(***************************************************************************)
EXTENDS Integers, Sequences, FiniteSets, TLC

VARIABLES dir, clock, proc, lst, outFiles, sent

vars == <<dir, clock, proc, lst, outFiles, sent>>

(***************************************************************************)
(* Bounds of the model                                                     *)
(***************************************************************************)
\* last clock second an invocation can start or end in
MaxClock == 1
\* largest skip and limit handed to getHistoryRecords directly
MaxSkip == 3
MaxLimit == 3
\* largest history index given on the command line
MaxIndex == 3
\* network calls made in one behaviour
MaxCalls == 3

(***************************************************************************)
(* Characters and strings                                                  *)
(***************************************************************************)
\* the characters in use, in ASCII (byte) order
AsciiOrder ==
  << " ", "*", "-", ".", "/",
     "0", "1", "2", "3", "4", "5", "6", "7", "8", "9", ":", "?", "@",
     "A", "B", "C", "D", "E", "F", "G", "H", "I", "J", "K", "L", "M",
     "N", "O", "P", "Q", "R", "S", "T", "U", "V", "W", "X", "Y", "Z",
     "_",
     "a", "b", "c", "d", "e", "f", "g", "h", "i", "j", "k", "l", "m",
     "n", "o", "p", "q", "r", "s", "t", "u", "v", "w", "x", "y", "z" >>

Chars == { AsciiOrder[i] : i \in 1..Len(AsciiOrder) }

Ord == [ c \in Chars |-> CHOOSE i \in 1..Len(AsciiOrder) : AsciiOrder[i] = c ]

UpperChars == { c \in Chars : Ord[c] >= Ord["A"] /\ Ord[c] <= Ord["Z"] }
LowerChars == { c \in Chars : Ord[c] >= Ord["a"] /\ Ord[c] <= Ord["z"] }
DigitChars == { c \in Chars : Ord[c] >= Ord["0"] /\ Ord[c] <= Ord["9"] }

LowerOf == [ c \in Chars |->
             IF c \in UpperChars THEN AsciiOrder[Ord[c] - Ord["A"] + Ord["a"]] ELSE c ]
UpperOf == [ c \in Chars |->
             IF c \in LowerChars THEN AsciiOrder[Ord[c] - Ord["a"] + Ord["A"]] ELSE c ]

\* an upper-casing that leaves the string as typed
ToUpper_asTyped(s) == s

\* strings.ToLower, strings.ToUpper
ToLower(s) == [ i \in 1..Len(s) |-> LowerOf[s[i]] ]
ToUpper(s) == [ i \in 1..Len(s) |-> UpperOf[s[i]] ]

\* byte-wise comparison of two strings, as sort.Sort on names does
StrLess(a, b) ==
  LET n == IF Len(a) < Len(b) THEN Len(a) ELSE Len(b)
      diff == { i \in 1..n : a[i] # b[i] }
  IN  IF diff = {} THEN Len(a) < Len(b)
      ELSE LET i == CHOOSE d \in diff : \A e \in diff : d <= e
           IN  Ord[a[i]] < Ord[b[i]]

\* strings.Index(s, sub) > -1
Contains(s, sub) ==
  \E i \in 0..(Len(s) - Len(sub)) :
     \A k \in 1..Len(sub) : s[i + k] = sub[k]

\* strings.Replace(s, old, new, -1) for one-character old and new
ReplaceChar(s, old, new) == [ i \in 1..Len(s) |-> IF s[i] = old THEN new ELSE s[i] ]

\* strings.Join of a list of strings with the empty separator
RECURSIVE Join(_)
Join(parts) == IF Len(parts) = 0 THEN << >> ELSE Head(parts) \o Join(Tail(parts))

\* the prefix s[:n]
Prefix(s, n) == SubSeq(s, 1, n)

\* decimal digits of a natural number, at least two of them (time formatting)
DigitOf(n) == AsciiOrder[Ord["0"] + n]
TwoDigits(n) == << DigitOf((n \div 10) % 10), DigitOf(n % 10) >>

(***************************************************************************)
(* String literals                                                         *)
(***************************************************************************)
S_GET == << "G", "E", "T" >>
S_HEAD == << "H", "E", "A", "D" >>
S_POST == << "P", "O", "S", "T" >>
S_PUT == << "P", "U", "T" >>
S_PATCH == << "P", "A", "T", "C", "H" >>
S_DELETE == << "D", "E", "L", "E", "T", "E" >>
S_get == << "g", "e", "t" >>
S_post == << "p", "o", "s", "t" >>
S_help == << "h", "e", "l", "p" >>
S_version == << "v", "e", "r", "s", "i", "o", "n" >>
S_history == << "h", "i", "s", "t", "o", "r", "y" >>
S_list == << "l", "i", "s", "t" >>
S_detail == << "d", "e", "t", "a", "i", "l" >>
S_replay == << "r", "e", "p", "l", "a", "y" >>
S_save == << "s", "a", "v", "e" >>
S_http == << "h", "t", "t", "p" >>
S_json == << ".", "j", "s", "o", "n" >>
S_sep == << "_", "_" >>
S_empty == << >>

\* Start(): Commands and RequestMethods of the application
Commands == << S_help, S_version, S_history >>
RequestMethods == << S_GET, S_HEAD, S_POST, S_PUT, S_PATCH, S_DELETE >>

(***************************************************************************)
(* History file names                                                      *)
(***************************************************************************)
\* time.Time.String()[:19] of the clock second t: "2014-01-01 00:mm:ss"
FormatTime(t) ==
  << "2", "0", "1", "4", "-", "0", "1", "-", "0", "1", " " >>
    \o TwoDigits(t \div 3600) \o << ":" >>
    \o TwoDigits((t \div 60) % 60) \o << ":" >>
    \o TwoDigits(t % 60)

IsWordChar(c) == c \in UpperChars \/ c \in LowerChars \/ c \in DigitChars \/ c = "_"

\* regexp "_+" replaced by "_"
CollapseUnderscores(s) ==
  LET marked == [ i \in 1..Len(s) |-> << s[i], i > 1 /\ s[i] = "_" /\ s[i - 1] = "_" >> ]
      kept == SelectSeq(marked, LAMBDA m : ~m[2])
  IN  [ k \in 1..Len(kept) |-> kept[k][1] ]

\* a cleaning that leaves runs of "_" as they are
cleanUrl_noCollapse(url) ==
  [ i \in 1..Len(url) |-> IF IsWordChar(url[i]) THEN url[i] ELSE "_" ]

\* every character outside [a-zA-Z0-9_] becomes "_", then runs of "_" collapse
cleanUrl(url) ==
  CollapseUnderscores([ i \in 1..Len(url) |-> IF IsWordChar(url[i]) THEN url[i] ELSE "_" ])

\* the name cap of getFileName
NameCap == 196

\* a naming that puts the method first and the time last
getFileName_methodFirst(startTime, method, urlString) ==
  LET cleanTime == ReplaceChar(ReplaceChar(ReplaceChar(FormatTime(startTime),
                                 ":", "_"), " ", "_"), "-", "_")
      fileName == Join(<< method, S_sep, cleanUrl(urlString), S_sep, cleanTime >>)
  IN  (IF Len(fileName) > NameCap THEN Prefix(fileName, NameCap) ELSE fileName) \o S_json

\* getFileName: time, method and cleaned URL, cut to NameCap, then ".json"
getFileName(startTime, method, urlString) ==
  LET cleanTime == ReplaceChar(ReplaceChar(ReplaceChar(FormatTime(startTime),
                                 ":", "_"), " ", "_"), "-", "_")
      fileName == Join(<< cleanTime, S_sep, method, S_sep, cleanUrl(urlString) >>)
  IN  (IF Len(fileName) > NameCap THEN Prefix(fileName, NameCap) ELSE fileName) \o S_json

(***************************************************************************)
(* The history directory and its listing                                   *)
(***************************************************************************)
\* ioutil.ReadDir: the names of the directory sorted ascending by name
RECURSIVE SortAsc(_)
SortAsc(names) ==
  IF names = {} THEN << >>
  ELSE LET least == CHOOSE n \in names : \A m \in names : m = n \/ StrLess(n, m)
       IN  << least >> \o SortAsc(names \ {least})

\* a directory read that returns the names greatest first
ReadDir_descending(d) ==
  LET asc == SortAsc(DOMAIN d)
  IN  [ k \in 1..Len(asc) |-> asc[Len(asc) + 1 - k] ]

ReadDir(d) == SortAsc(DOMAIN d)

\* the test of line 153 negated: the entry is a dot file
IsHidden(fileName) == ~(Len(fileName) > 0 /\ fileName[1] # ".")

\* the filter of lines 154-155
Matches(fileName, find, caseInsensitive) ==
  LET flagAndLowerExists == caseInsensitive /\ Contains(ToLower(fileName), ToLower(find))
  IN  find = S_empty \/ flagAndLowerExists \/ Contains(fileName, find)

\* the second conjunct of the loop condition, line 151
LoopCond(limit, numItems) == limit < 1 \/ numItems < limit

\* a loop body with the label taken from the place in the page
walkStep_labelByResults(st, fileName, skip, find, caseInsensitive) ==
  IF ~IsHidden(fileName)
  THEN IF st.numSkipped >= skip /\ Matches(fileName, find, caseInsensitive)
       THEN [st EXCEPT !.items = Append(@, fileName),
                       !.itemIndexes = Append(@, skip + Len(st.items) + 1),
                       !.itemIndex = @ + 1]
       ELSE [st EXCEPT !.numSkipped = @ + 1, !.itemIndex = @ + 1]
  ELSE st

\* a loop body whose skip test is off by one
walkStep_skipOffByOne(st, fileName, skip, find, caseInsensitive) ==
  IF ~IsHidden(fileName)
  THEN IF st.numSkipped > skip /\ Matches(fileName, find, caseInsensitive)
       THEN [st EXCEPT !.items = Append(@, fileName),
                       !.itemIndexes = Append(@, st.itemIndex + 1),
                       !.itemIndex = @ + 1]
       ELSE [st EXCEPT !.numSkipped = @ + 1, !.itemIndex = @ + 1]
  ELSE st

\* a loop body without the dot-file test
walkStep_noHiddenTest(st, fileName, skip, find, caseInsensitive) ==
  IF st.numSkipped >= skip /\ Matches(fileName, find, caseInsensitive)
  THEN [st EXCEPT !.items = Append(@, fileName),
                  !.itemIndexes = Append(@, st.itemIndex + 1),
                  !.itemIndex = @ + 1]
  ELSE [st EXCEPT !.numSkipped = @ + 1, !.itemIndex = @ + 1]

\* a walk that does not look at skip
walkStep_ignoreSkip(st, fileName, skip, find, caseInsensitive) ==
  IF ~IsHidden(fileName)
  THEN IF Matches(fileName, find, caseInsensitive)
       THEN [st EXCEPT !.items = Append(@, fileName),
                       !.itemIndexes = Append(@, st.itemIndex + 1),
                       !.itemIndex = @ + 1]
       ELSE [st EXCEPT !.numSkipped = @ + 1, !.itemIndex = @ + 1]
  ELSE st

\* a walk that counts an entry as skipped only when it matches the filter
walkStep_countMatchesOnly(st, fileName, skip, find, caseInsensitive) ==
  IF ~IsHidden(fileName)
  THEN IF st.numSkipped >= skip /\ Matches(fileName, find, caseInsensitive)
       THEN [st EXCEPT !.items = Append(@, fileName),
                       !.itemIndexes = Append(@, st.itemIndex + 1),
                       !.itemIndex = @ + 1]
       ELSE IF Matches(fileName, find, caseInsensitive)
            THEN [st EXCEPT !.numSkipped = @ + 1, !.itemIndex = @ + 1]
            ELSE [st EXCEPT !.itemIndex = @ + 1]
  ELSE st

\* one iteration of the loop of getHistoryRecords, lines 152-164
walkStep(st, fileName, skip, find, caseInsensitive) ==
  IF ~IsHidden(fileName)
  THEN IF st.numSkipped >= skip /\ Matches(fileName, find, caseInsensitive)
       THEN [st EXCEPT !.items = Append(@, fileName),
                       !.itemIndexes = Append(@, st.itemIndex + 1),
                       !.itemIndex = @ + 1]
       ELSE [st EXCEPT !.numSkipped = @ + 1, !.itemIndex = @ + 1]
  ELSE st

\* a loop test that lets one entry too many in
loopContinues_offByOne(i, limit, numItems) == i >= 1 /\ (limit < 1 \/ numItems <= limit)

\* the loop test of line 151 (i runs from Len(fileInfos) down to 1)
loopContinues(i, limit, numItems) == i >= 1 /\ LoopCond(limit, numItems)

\* the loop of getHistoryRecords from position i on; the result keeps the
\* position the loop stopped at
RECURSIVE walk(_, _, _, _, _, _, _)
walk(fileInfos, i, st, skip, limit, find, caseInsensitive) ==
  IF ~loopContinues(i, limit, Len(st.items))
  THEN [st EXCEPT !.i = i]
  ELSE walk(fileInfos, i - 1,
            walkStep(st, fileInfos[i], skip, find, caseInsensitive),
            skip, limit, find, caseInsensitive)

\* getHistoryRecords on directory d
getHistoryRecords(d, skip, limit, find, caseInsensitive) ==
  LET fileInfos == ReadDir(d)
      start == [ items |-> << >>, itemIndexes |-> << >>, itemIndex |-> 0,
                 numSkipped |-> 0, numTotal |-> Len(fileInfos), i |-> Len(fileInfos) ]
  IN  walk(fileInfos, Len(fileInfos), start, skip, limit, find, caseInsensitive)

(***************************************************************************)
(* RunHistoryList                                                          *)
(***************************************************************************)
\* what RunHistoryList prints for a listing, lines 73-85
printHistoryList(res) ==
  IF res.numTotal = 0
  THEN [ msg |-> "Nothing in history." ]
  ELSE IF Len(res.items) = 0
       THEN [ msg |-> "No results matching criteria." ]
       ELSE [ msg |-> "Displaying", from |-> res.numSkipped + 1,
              to |-> res.numSkipped + 1 + Len(res.items), of |-> res.numTotal,
              lines |-> [ k \in 1..Len(res.items) |->
                            << res.itemIndexes[k], res.items[k] >> ] ]

(***************************************************************************)
(* Option reader                                                           *)
(***************************************************************************)
\* flagIsActive: some token of the argument list is one of the aliases
flagIsActive(args, flagMap) == \E i \in 1..Len(args) : args[i] \in flagMap

\* an option reader that keeps the value of the last alias found
getOption_lastOccurrence(args, optMap, defaultValue) ==
  LET hits == { i \in 1..Len(args) : args[i] \in optMap }
  IN  IF hits = {}
      THEN [ panic |-> FALSE, value |-> defaultValue ]
      ELSE LET i == CHOOSE h \in hits : \A g \in hits : h >= g
           IN  IF i + 1 > Len(args)
               THEN [ panic |-> TRUE, value |-> defaultValue ]
               ELSE [ panic |-> FALSE, value |-> args[i + 1] ]

\* getOption: the token after the first alias found; the index i+1 is read
\* without a length test that can fail, so an alias in last place is a
\* run-time panic (index out of range)
getOption(args, optMap, defaultValue) ==
  LET hits == { i \in 1..Len(args) : args[i] \in optMap }
  IN  IF hits = {}
      THEN [ panic |-> FALSE, value |-> defaultValue ]
      ELSE LET i == CHOOSE h \in hits : \A g \in hits : h <= g
           IN  IF i + 1 > Len(args)
               THEN [ panic |-> TRUE, value |-> defaultValue ]
               ELSE [ panic |-> FALSE, value |-> args[i + 1] ]

\* value of a string of decimal digits
RECURSIVE DigitsValue(_)
DigitsValue(s) ==
  IF Len(s) = 0 THEN 0
  ELSE 10 * DigitsValue(SubSeq(s, 1, Len(s) - 1)) + (Ord[s[Len(s)]] - Ord["0"])

\* a conversion that drops the sign
Atoi_unsigned(s) ==
  LET neg == Len(s) >= 1 /\ s[1] = "-"
      digits == IF neg THEN Tail(s) ELSE s
  IN  IF Len(digits) >= 1 /\ \A k \in 1..Len(digits) : digits[k] \in DigitChars
      THEN [ ok |-> TRUE, value |-> DigitsValue(digits) ]
      ELSE [ ok |-> FALSE, value |-> 0 ]

\* strconv.Atoi: an optional "-" and at least one digit, nothing else
Atoi(s) ==
  LET neg == Len(s) >= 1 /\ s[1] = "-"
      digits == IF neg THEN Tail(s) ELSE s
  IN  IF Len(digits) >= 1 /\ \A k \in 1..Len(digits) : digits[k] \in DigitChars
      THEN [ ok |-> TRUE, value |-> IF neg THEN 0 - DigitsValue(digits) ELSE DigitsValue(digits) ]
      ELSE [ ok |-> FALSE, value |-> 0 ]

(***************************************************************************)
(* Command dispatcher                                                      *)
(***************************************************************************)
\* a dispatcher that compares the first argument as typed
DetermineMode_caseSensitive(args) ==
  IF Len(args) < 1
  THEN S_help
  ELSE IF \E i \in 1..Len(Commands) : args[1] = Commands[i]
       THEN args[1]
       ELSE S_http

\* mode selection by help and version flags anywhere in the argument list
ModeByFlags(args) ==
  IF Len(args) < 1 \/ flagIsActive(args, { << "-", "h" >>, << "-", "-" >> \o S_help })
  THEN S_help
  ELSE IF flagIsActive(args, { << "-", "v" >>, << "-", "-" >> \o S_version })
       THEN S_version
       ELSE IF ToLower(args[1]) = S_history THEN S_history ELSE S_http

\* DetermineMode: the first argument, lower-cased, when it is a command
DetermineMode(args) ==
  IF Len(args) < 1
  THEN S_help
  ELSE IF \E i \in 1..Len(Commands) : ToLower(args[1]) = Commands[i]
       THEN ToLower(args[1])
       ELSE S_http

HistoryModes == { S_list, S_detail, S_replay, S_save }

\* RunHistory, lines 172-178: the history sub-command
historyModeOf(args) ==
  IF Len(args) > 1 /\ ToLower(args[2]) \in HistoryModes THEN ToLower(args[2]) ELSE S_list

(***************************************************************************)
(* URLs                                                                    *)
(***************************************************************************)
\* first place where sub occurs in s, 0 when it does not
IndexOf(s, sub) ==
  LET at == { i \in 1..(Len(s) - Len(sub) + 1) :
                 \A k \in 1..Len(sub) : s[i + k - 1] = sub[k] }
  IN  IF at = {} THEN 0 ELSE CHOOSE i \in at : \A j \in at : i <= j

S_schemeSep == << ":", "/", "/" >>

\* url.Parse for URLs without query and fragment: scheme://[user@]host[/path]
ParseUrl(s) ==
  LET c == IndexOf(s, S_schemeSep)
  IN  IF c = 0
      THEN [ Scheme |-> S_empty, HasUser |-> FALSE, User |-> S_empty,
             Host |-> S_empty, Path |-> s ]
      ELSE LET rest == SubSeq(s, c + 3, Len(s))
               sl == IndexOf(rest, << "/" >>)
               authority == IF sl = 0 THEN rest ELSE SubSeq(rest, 1, sl - 1)
               path == IF sl = 0 THEN S_empty ELSE SubSeq(rest, sl, Len(rest))
               at == IndexOf(authority, << "@" >>)
           IN  [ Scheme |-> SubSeq(s, 1, c - 1),
                 HasUser |-> at # 0,
                 User |-> IF at = 0 THEN S_empty ELSE SubSeq(authority, 1, at - 1),
                 Host |-> IF at = 0 THEN authority
                          ELSE SubSeq(authority, at + 1, Len(authority)),
                 Path |-> path ]

\* URL.String()
UrlString(u) ==
  IF u.Scheme = S_empty /\ u.Host = S_empty /\ ~u.HasUser
  THEN u.Path
  ELSE u.Scheme \o S_schemeSep
         \o (IF u.HasUser THEN u.User \o << "@" >> ELSE S_empty)
         \o u.Host \o u.Path

(***************************************************************************)
(* Request builder                                                         *)
(***************************************************************************)
S_in == << "i", "n" >>
S_nofile == << "n", "o" >>
S_out == << "o", "u", "t" >>
S_data == << "x", "y" >>
S_appJson ==
  << "a", "p", "p", "l", "i", "c", "a", "t", "i", "o", "n", "/", "j", "s", "o", "n" >>
S_formEnc ==
  << "a", "p", "p", "l", "i", "c", "a", "t", "i", "o", "n", "/", "x", "-", "w", "w", "w", "-", "f", "o", "r", "m", "-", "u", "r", "l", "e", "n", "c", "o", "d", "e", "d" >>
S_anyType == << "*", "/", "*" >>

\* the files a request body can be read from: path -> content
InputFiles == [ path \in { S_in } |-> << "b", "o", "d", "y" >> ]

Opt(short, long) == { << "-", short >>, << "-", "-" >> \o long }

inputFlagMap == Opt("i", << "i", "n", "p", "u", "t" >>)
outputFlagMap == Opt("o", << "o", "u", "t", "p", "u", "t" >>)
jsonFlagMap == Opt("j", << "j", "s", "o", "n" >>)
contentTypeOptMap == Opt("c", << "c", "o", "n", "t", "e", "n", "t", "-", "t", "y", "p", "e" >>)
acceptOptMap == Opt("a", << "a", "c", "c", "e", "p", "t" >>)
timeoutOptMap == Opt("t", << "t", "i", "m", "e", "o", "u", "t" >>)
dataOptMap == Opt("d", << "d", "a", "t", "a" >>)

\* the zero values of Request and Response
NoUrl == [ Scheme |-> S_empty, HasUser |-> FALSE, User |-> S_empty,
           Host |-> S_empty, Path |-> S_empty ]
NoRequest == [ Method |-> S_empty, URL |-> NoUrl, Timeout |-> 0, ContentType |-> S_empty,
               Accept |-> S_empty, ContentLength |-> 0, Body |-> S_empty ]
NoResponse == [ ContentType |-> S_empty, ContentLength |-> 0, Body |-> S_empty ]

\* a builder that reads a body for every method
BodyMethods_all == { S_GET, S_HEAD, S_POST, S_PUT, S_PATCH, S_DELETE }

BodyMethods == { S_POST, S_PATCH, S_PUT }

\* a resolution that lets the content type option win over the json flag
requestContentTypeOf_optionFirst(jsonContentType, contentType, requestMethod) ==
  IF contentType # S_empty THEN contentType
  ELSE IF jsonContentType THEN S_appJson
  ELSE IF requestMethod \in BodyMethods THEN S_appJson
  ELSE S_formEnc

\* CreateRequest, lines 151-160
requestContentTypeOf(jsonContentType, contentType, requestMethod) ==
  IF jsonContentType THEN S_appJson
  ELSE IF contentType # S_empty THEN contentType
  ELSE IF requestMethod \in BodyMethods THEN S_appJson
  ELSE S_formEnc

\* CreateRequest: the request of an http invocation, or its error
CreateRequest(args) ==
  LET given == ToUpper(args[1])
      requestMethodProvided == \E i \in 1..Len(RequestMethods) : RequestMethods[i] = given
      requestMethod == IF requestMethodProvided THEN given ELSE RequestMethods[1]
      urlIndex == IF requestMethodProvided THEN 2 ELSE 1
      inputOpt == getOption(args, inputFlagMap, S_empty)
      outputOpt == getOption(args, outputFlagMap, S_empty)
      jsonContentType == flagIsActive(args, jsonFlagMap)
      contentTypeOpt == getOption(args, contentTypeOptMap, S_empty)
      acceptOpt == getOption(args, acceptOptMap, S_empty)
      dataOpt == getOption(args, dataOptMap, S_empty)
      timeoutOpt == getOption(args, timeoutOptMap, << "0" >>)
      parsed == Atoi(timeoutOpt.value)
      timeout == IF ~parsed.ok \/ parsed.value < 1 THEN 60 ELSE parsed.value
      useData == requestMethod \in BodyMethods /\ dataOpt.value # S_empty
      useFile == /\ requestMethod \in BodyMethods
                 /\ dataOpt.value = S_empty
                 /\ inputOpt.value # S_empty
                 /\ inputOpt.value \in DOMAIN InputFiles
      inputFilePath == IF /\ requestMethod \in BodyMethods
                          /\ dataOpt.value = S_empty
                          /\ inputOpt.value # S_empty
                          /\ inputOpt.value \notin DOMAIN InputFiles
                       THEN S_empty ELSE inputOpt.value
      requestData == IF useData THEN dataOpt.value
                     ELSE IF useFile THEN InputFiles[inputOpt.value] ELSE S_empty
      none == [ panic |-> FALSE, err |-> "", InputFilePath |-> S_empty,
                OutputFilePath |-> S_empty, Request |-> NoRequest ]
  IN  IF Len(args) < urlIndex
      THEN [ none EXCEPT !.err = "Invalid arguments. Try 'gohttp help' for usage details." ]
      ELSE IF \E o \in { inputOpt, outputOpt, contentTypeOpt, acceptOpt, dataOpt, timeoutOpt } :
                 o.panic
      THEN [ none EXCEPT !.panic = TRUE ]
      ELSE IF requestMethod \notin BodyMethods /\ dataOpt.value # S_empty
      THEN [ none EXCEPT !.err = "Data flag is only valid for POST, PATCH, and PUT requests." ]
      ELSE [ panic |-> FALSE, err |-> "",
             InputFilePath |-> inputFilePath,
             OutputFilePath |-> outputOpt.value,
             Request |-> [ Method |-> requestMethod,
                           URL |-> ParseUrl(args[urlIndex]),
                           Timeout |-> timeout,
                           ContentType |-> requestContentTypeOf(jsonContentType,
                                              contentTypeOpt.value, requestMethod),
                           Accept |-> IF acceptOpt.value # S_empty
                                      THEN acceptOpt.value ELSE S_anyType,
                           ContentLength |-> Len(requestData),
                           Body |-> requestData ] ]

(***************************************************************************)
(* History records on disk                                                 *)
(***************************************************************************)
\* a file just created by os.Create: no bytes yet
EmptyFile == [ kind |-> "empty" ]

\* json.Marshal of a URL: the fields of Userinfo are not exported
MarshalUrl(u) == [ u EXCEPT !.User = S_empty ]

\* json.Marshal of the application: its exported fields
Marshal(app) ==
  [ Args |-> app.Args, StartTime |-> app.StartTime, EndTime |-> app.EndTime,
    Duration |-> app.Duration, Mode |-> app.Mode, HistoryMode |-> app.HistoryMode,
    HistoryRecordId |-> app.HistoryRecordId, InputFilePath |-> app.InputFilePath,
    OutputFilePath |-> app.OutputFilePath,
    Request |-> [ app.Request EXCEPT !.URL = MarshalUrl(@) ],
    Response |-> app.Response ]

JsonFile(doc) == [ kind |-> "json", doc |-> doc ]

\* a loader that skips as many entries as the index says
loadSkip_noOffset(historyIndex) == IF historyIndex > 1 THEN historyIndex ELSE 0

\* loadAppFromHistory, lines 184-187
loadSkip(historyIndex) == IF historyIndex > 1 THEN historyIndex - 1 ELSE 0

\* loadAppFromHistory on directory d: the record at the display index given
\* as third argument, or the error
loadAppFromHistory(d, args) ==
  LET none == [ err |-> "", HistoryRecordId |-> 0, fileName |-> S_empty, historyApp |-> << >> ]
  IN  IF Len(args) < 3
      THEN [ none EXCEPT !.err = "Missing history record index." ]
      ELSE LET parsed == Atoi(args[3])
               historyIndex == parsed.value
               r == getHistoryRecords(d, loadSkip(historyIndex), 1, S_empty, TRUE)
               withId == [ none EXCEPT !.HistoryRecordId = historyIndex ]
           IN  IF ~parsed.ok
               THEN [ none EXCEPT !.err = "strconv.ParseInt: invalid syntax" ]
               ELSE IF Len(r.items) # 1 \/ Len(r.itemIndexes) # 1
               THEN [ withId EXCEPT !.err = "No history records found." ]
               ELSE IF historyIndex # r.itemIndexes[1]
               THEN [ withId EXCEPT !.err = "Invalid history record index" ]
               ELSE IF d[r.items[1]].kind # "json"
               THEN [ withId EXCEPT !.err = "Error unmarshalling json",
                                    !.fileName = r.items[1] ]
               ELSE [ withId EXCEPT !.fileName = r.items[1],
                                    !.historyApp = d[r.items[1]].doc ]

\* getHistoryListOptions: skip, limit, find and the case flag
getHistoryListOptions(args) ==
  LET skipOpt == getOption(args, Opt("s", << "s", "k", "i", "p" >>), S_empty)
      limitOpt == getOption(args, Opt("l", << "l", "i", "m", "i", "t" >>), S_empty)
      findOpt == getOption(args, Opt("f", << "f", "i", "n", "d" >>), S_empty)
      skipN == Atoi(skipOpt.value)
      limitN == Atoi(limitOpt.value)
  IN  [ panic |-> skipOpt.panic \/ limitOpt.panic \/ findOpt.panic,
        skip |-> IF skipOpt.value = S_empty \/ ~skipN.ok \/ skipN.value < 0
                 THEN 0 ELSE skipN.value,
        limit |-> IF limitOpt.value = S_empty \/ ~limitN.ok \/ limitN.value < 1
                  THEN 10 ELSE limitN.value,
        find |-> findOpt.value,
        caseFlag |-> flagIsActive(args, Opt("i", << "i", "n", "s", "e", "n", "s",
                                                     "i", "t", "i", "v", "e" >>)) ]

(***************************************************************************)
(* Files a history directory can hold                                      *)
(***************************************************************************)
S_dotfile == << ".", "k", "e", "e", "p" >>
S_lowfile == << "-", "o", "l", "d" >>
S_urlA == << "h", "t", "t", "p", ":", "/", "/", "a", ".", "c", "o" >>

\* a file that no invocation of the program wrote
ForeignFile == [ kind |-> "raw" ]

\* names the directory is drawn from in the listing specification: a dot
\* file, a visible file sorting below it, and record names of the program
SeedNames ==
  { S_dotfile, S_lowfile }
    \cup { getFileName(t, m, S_urlA) : t \in 0..MaxClock, m \in { S_GET, S_POST } }

SeedDirs == { [ n \in names |-> ForeignFile ] : names \in SUBSET SeedNames }

FindStrings == { S_empty, S_GET, S_get, S_post }

(***************************************************************************)
(* Processes (one per invocation of the program)                           *)
(***************************************************************************)
Procs == { "p1", "p2" }

IdleApp == [ pc |-> "idle" ]

NoList == [ called |-> FALSE ]

(***************************************************************************)
(* One invocation of the program                                           *)
(***************************************************************************)
\* the application object Start() builds, with the clock read by Run()
NewApp(args, now) ==
  [ pc |-> "done", Args |-> args, StartTime |-> now, EndTime |-> 0, Duration |-> 0,
    Mode |-> S_empty, HistoryMode |-> S_empty, HistoryRecordId |-> 0,
    InputFilePath |-> S_empty, OutputFilePath |-> S_empty,
    Request |-> NoRequest, Response |-> NoResponse,
    err |-> "", panic |-> FALSE, printed |-> [ msg |-> "" ],
    calls |-> << >>, historyFile |-> S_empty, fileName |-> S_empty,
    jsonBytes |-> << >> ]

\* a loader that sends the request of the record in detail mode too
runHistoryLoad_detailSends(app, d) ==
  LET ld == loadAppFromHistory(d, app.Args)
      a == [ app EXCEPT !.HistoryRecordId = ld.HistoryRecordId,
                       !.historyFile = ld.fileName ]
  IN  IF ld.err # ""
      THEN [ a EXCEPT !.err = ld.err ]
      ELSE [ a EXCEPT !.Request = ld.historyApp.Request, !.pc = "send" ]

\* RunHistoryDetail and RunHistoryReplay up to the network call
runHistoryLoad(app, d) ==
  LET ld == loadAppFromHistory(d, app.Args)
      a == [ app EXCEPT !.HistoryRecordId = ld.HistoryRecordId,
                       !.historyFile = ld.fileName ]
  IN  IF ld.err # ""
      THEN [ a EXCEPT !.err = ld.err ]
      ELSE IF app.HistoryMode = S_detail
           THEN [ a EXCEPT !.printed = [ msg |-> "detail", app |-> ld.historyApp ] ]
           ELSE [ a EXCEPT !.Request = ld.historyApp.Request, !.pc = "send" ]

\* RunHistoryList
runHistoryList(app, d) ==
  LET o == getHistoryListOptions(app.Args)
  IN  IF o.panic
      THEN [ app EXCEPT !.panic = TRUE ]
      ELSE [ app EXCEPT !.printed =
               printHistoryList(getHistoryRecords(d, o.skip, o.limit, o.find, o.caseFlag)) ]

\* RunHttp up to the network call
runCreateRequest(app) ==
  LET cr == CreateRequest(app.Args)
  IN  IF cr.panic THEN [ app EXCEPT !.panic = TRUE ]
      ELSE IF cr.err # "" THEN [ app EXCEPT !.err = cr.err ]
      ELSE [ app EXCEPT !.InputFilePath = cr.InputFilePath,
                        !.OutputFilePath = cr.OutputFilePath,
                        !.Request = cr.Request, !.pc = "send" ]

\* Run() from the start to the network call or to the end of the invocation
runToCall(args, now, d) ==
  LET app == [ NewApp(args, now) EXCEPT !.Mode = DetermineMode(args) ]
      hist == [ app EXCEPT !.HistoryMode = historyModeOf(args) ]
  IN  IF app.Mode = S_help THEN [ app EXCEPT !.printed = [ msg |-> "Usage:" ] ]
      ELSE IF app.Mode = S_version THEN [ app EXCEPT !.printed = [ msg |-> "version" ] ]
      ELSE IF app.Mode = S_history
           THEN IF hist.HistoryMode \in { S_detail, S_replay }
                THEN runHistoryLoad(hist, d)
                ELSE runHistoryList(hist, d)
      ELSE runCreateRequest(app)

IdleProcs == [ p \in Procs |-> IdleApp ]

\* the transport sends http URLs only
CanSend(request) == request.URL.Scheme = S_http

\* the answers of the server
Responses ==
  { [ ContentType |-> S_appJson, ContentLength |-> 2, Body |-> << "o", "k" >> ] }

(***************************************************************************)
(* Specification of the listing: any directory, any arguments              *)
(***************************************************************************)
InitList ==
  /\ dir \in SeedDirs
  /\ clock = 0
  /\ proc = IdleProcs
  /\ lst = NoList
  /\ outFiles = << >>
  /\ sent = 0

\* RunHistoryList with the options already read: lines 68-87
ListCall ==
  /\ ~lst.called
  /\ \E skip \in 0..MaxSkip, limit \in (0 - 1)..MaxLimit,
        find \in FindStrings, caseInsensitive \in BOOLEAN :
       LET res == getHistoryRecords(dir, skip, limit, find, caseInsensitive)
       IN  lst' = [ called |-> TRUE, skip |-> skip, limit |-> limit, find |-> find,
                    caseInsensitive |-> caseInsensitive, res |-> res,
                    printed |-> printHistoryList(res) ]
  /\ UNCHANGED << dir, clock, proc, outFiles, sent >>

NextList == ListCall

SpecList == InitList /\ [][NextList]_vars

(***************************************************************************)
(* Specification of the program: invocations one after the other           *)
(***************************************************************************)
Itoa(n) == << DigitOf(n) >>

\* the command lines of the invocations
ArgLists ==
  { << >>,
    << << "-", "v" >> >>,
    << S_history, << "-", "h" >> >>,
    << << "V", "e", "r", "s", "i", "o", "n" >> >>,
    << << "H", "E", "L", "P" >> >>,
    << S_urlA >>,
    << S_post, S_urlA, << "-", "d" >>, S_data >>,
    << S_history, S_detail >>,
    << S_history, S_detail, << "x" >> >>,
    << S_history, S_detail, << "-", "1" >> >> }
  \cup { << << "H", "i", "s", "t", "o", "r", "y" >>, S_detail, Itoa(n) >> : n \in 0..MaxIndex }
  \cup { << S_history, S_replay, Itoa(n) >> : n \in 0..(MaxIndex - 1) }
  \cup { << S_history, S_replay >> }

\* a directory in which a file that exists is left as it is
WithFile_keepExisting(d, n, c) ==
  [ m \in DOMAIN d \cup { n } |-> IF m \in DOMAIN d THEN d[m] ELSE c ]

\* the directory with file name n holding content c
WithFile(d, n, c) == [ m \in DOMAIN d \cup { n } |-> IF m = n THEN c ELSE d[m] ]

Init ==
  /\ dir \in { << >>, [ n \in { S_dotfile } |-> ForeignFile ] }
  /\ clock = 0
  /\ proc = IdleProcs
  /\ lst = NoList
  /\ outFiles = << >>
  /\ sent = 0

\* a second of wall-clock time passes
Tick ==
  /\ clock < MaxClock
  /\ clock' = clock + 1
  /\ UNCHANGED << dir, proc, lst, outFiles, sent >>

\* Start() and Run() up to the network call, or to the end when there is none
Start(p, args) ==
  /\ proc[p].pc = "idle"
  /\ ~(DetermineMode(args) = S_history /\ historyModeOf(args) = S_save)
  /\ runToCall(args, clock, dir).pc = "send" => sent < MaxCalls
  /\ proc' = [ proc EXCEPT ![p] = runToCall(args, clock, dir) ]
  /\ UNCHANGED << dir, clock, lst, outFiles, sent >>

\* a sender that tries again after a call that failed
Send_retry(p) ==
  /\ proc[p].pc = "send"
  /\ CanSend(proc[p].Request)
  /\ sent' = sent + 1
  /\ \/ /\ proc' = [ proc EXCEPT ![p].calls = Append(@, proc[p].Request) ]
        /\ UNCHANGED outFiles
     \/ \E resp \in Responses :
          /\ proc' = [ proc EXCEPT ![p] =
                         [ proc[p] EXCEPT !.pc = "save",
                                          !.calls = Append(@, proc[p].Request),
                                          !.Response = resp ] ]
          /\ outFiles' = IF proc[p].OutputFilePath # S_empty
                         THEN WithFile(outFiles, proc[p].OutputFilePath, resp.Body)
                         ELSE outFiles
  /\ UNCHANGED << dir, clock, lst >>

\* SendRequest: the call fails, or the response is kept and the body is
\* written to the output file when one is asked for
Send(p) ==
  /\ proc[p].pc = "send"
  /\ LET app == proc[p]
     IN  \/ /\ ~CanSend(app.Request)
            /\ proc' = [ proc EXCEPT ![p] = [ app EXCEPT !.pc = "done",
                                                !.err = "Error sending request" ] ]
            /\ UNCHANGED << outFiles, sent >>
         \/ /\ CanSend(app.Request)
            /\ sent' = sent + 1
            /\ \/ /\ proc' = [ proc EXCEPT ![p] =
                                 [ app EXCEPT !.pc = "done",
                                              !.calls = Append(@, app.Request),
                                              !.err = "Error sending request" ] ]
                  /\ UNCHANGED outFiles
               \/ \E resp \in Responses :
                    /\ proc' = [ proc EXCEPT ![p] =
                                   [ app EXCEPT !.pc = "save",
                                                !.calls = Append(@, app.Request),
                                                !.Response = resp ] ]
                    /\ outFiles' = IF app.OutputFilePath # S_empty
                                   THEN WithFile(outFiles, app.OutputFilePath, resp.Body)
                                   ELSE outFiles
  /\ UNCHANGED << dir, clock, lst >>

\* SaveApp and saveJson up to os.Create: the file exists and is empty
Create(p) ==
  /\ proc[p].pc = "save"
  /\ LET timed == [ proc[p] EXCEPT !.EndTime = clock, !.Duration = clock - proc[p].StartTime ]
         fileName == getFileName(timed.StartTime, timed.Request.Method,
                                 UrlString(timed.Request.URL))
     IN  /\ proc' = [ proc EXCEPT ![p] = [ timed EXCEPT !.pc = "write",
                                                         !.fileName = fileName,
                                                         !.jsonBytes = Marshal(timed) ] ]
         /\ dir' = WithFile(dir, fileName, EmptyFile)
  /\ UNCHANGED << clock, lst, outFiles, sent >>

\* saveJson: file.Write of the marshalled application
Write(p) ==
  /\ proc[p].pc = "write"
  /\ dir' = WithFile(dir, proc[p].fileName, JsonFile(proc[p].jsonBytes))
  /\ proc' = [ proc EXCEPT ![p].pc = "done" ]
  /\ UNCHANGED << clock, lst, outFiles, sent >>

\* the process ends
Exit(p) ==
  /\ proc[p].pc = "done"
  /\ proc' = [ proc EXCEPT ![p] = IdleApp ]
  /\ UNCHANGED << dir, clock, lst, outFiles, sent >>

Next ==
  \/ Tick
  \/ \E args \in ArgLists : Start("p1", args)
  \/ Send("p1")
  \/ Create("p1")
  \/ Write("p1")
  \/ Exit("p1")

Spec == Init /\ [][Next]_vars

(***************************************************************************)
(* Specification of the request builder: one request from any command line *)
(***************************************************************************)
S_text == << "t", "x", "t" >>
S_urlU == << "h", "t", "t", "p", ":", "/", "/", "u", "@", "a", ".", "c", "o" >>
S_seg == << "a", "b", ".", "-" >>

\* the number of path segments of the longest URL
MaxSegs == 54

RECURSIVE Repeat(_, _)
Repeat(s, k) == IF k = 0 THEN << >> ELSE s \o Repeat(s, k - 1)

\* a URL whose path has k segments
LongUrl(k) == S_urlA \o << "/" >> \o Repeat(S_seg, k)

\* how the method is given: not at all, or as first argument in any case
MethodTokens ==
  { << >>, << S_get >>, << S_HEAD >>, << S_DELETE >>, << S_POST >>,
    << << "p", "u", "t" >> >>, << S_PATCH >> }

\* the options of a command line
ReqOptionLists ==
  LET d == << "-", "d" >>
      i == << "-", "i" >>
      o == << "-", "o" >>
      j == << "-", "j" >>
      c == << "-", "c" >>
      a == << "-", "a" >>
  IN  { << >>,
        << d, S_data >>,
        << << "-", "-", "d", "a", "t", "a" >>, S_data >>,
        << d, S_empty >>,
        << d, S_empty, d, S_data >>,
        << i, S_in >>,
        << << "-", "-", "i", "n", "p", "u", "t" >>, S_in >>,
        << i, S_nofile >>,
        << d, S_data, i, S_in >>,
        << j >>,
        << << "-", "-", "j", "s", "o", "n" >> >>,
        << c, S_text >>,
        << << "-", "-", "c", "o", "n", "t", "e", "n", "t", "-", "t", "y", "p", "e" >>, S_text >>,
        << c, S_empty >>,
        << j, c, S_text >>,
        << c, S_text, j >>,
        << o, S_out >>,
        << o, S_out, o, S_in >>,
        << << "-", "-", "o", "u", "t", "p", "u", "t" >>, S_in, o, S_out >>,
        << a, S_text, a, S_out >>,
        << o >>,
        << o, S_out, o >>,
        << d, S_data, o >>,
        << d >> }

\* the command lines of the request builder specification
ReqArgLists ==
  { m \o << S_urlA >> \o opts : m \in MethodTokens, opts \in ReqOptionLists }
    \cup { << S_get >>, << S_urlU >>, << S_post, S_urlU, << "-", "d" >>, S_data >> }
    \cup { m \o << LongUrl(k) >> : m \in { << >>, << S_DELETE >> },
                                   k \in { 1, MaxSegs - 2, MaxSegs } }

\* Start() and Run() of the first request of a behaviour
StartOnce(p, args) ==
  /\ sent = 0
  /\ Start(p, args)

NextReq ==
  \/ Tick
  \/ \E args \in ReqArgLists : StartOnce("p1", args)
  \/ Send("p1")
  \/ Create("p1")
  \/ Write("p1")
  \/ Exit("p1")

SpecReq == Init /\ [][NextReq]_vars

(***************************************************************************)
(* Specification of the program: two invocations at the same time          *)
(***************************************************************************)
\* the command lines of invocations that run side by side
ConcArgLists ==
  { << S_urlA >>,
    << S_history >>,
    << S_history, S_detail, Itoa(1) >>,
    << S_history, S_replay, Itoa(1) >> }

NextConc ==
  \/ Tick
  \/ \E p \in Procs, args \in ConcArgLists : Start(p, args)
  \/ \E p \in Procs : Send(p)
  \/ \E p \in Procs : Create(p)
  \/ \E p \in Procs : Write(p)
  \/ \E p \in Procs : Exit(p)

SpecConc == Init /\ [][NextConc]_vars

(***************************************************************************)
(* Specification of the program: every mode, and writes that fail          *)
(***************************************************************************)
\* a sender that goes on to the history record after an output file
\* that could not be written
SendOutputFails_saves(p) ==
  /\ proc[p].pc = "send"
  /\ CanSend(proc[p].Request)
  /\ proc[p].OutputFilePath # S_empty
  /\ sent' = sent + 1
  /\ \E resp \in Responses :
       proc' = [ proc EXCEPT ![p] =
                   [ proc[p] EXCEPT !.pc = "save",
                                    !.calls = Append(@, proc[p].Request),
                                    !.Response = resp ] ]
  /\ outFiles' \in { outFiles, WithFile(outFiles, proc[p].OutputFilePath, S_empty) }
  /\ UNCHANGED << dir, clock, lst >>

\* SendRequest, lines 192-213: the call succeeded and the output file
\* cannot be made or written; the file is missing or left empty
SendOutputFails(p) ==
  /\ proc[p].pc = "send"
  /\ CanSend(proc[p].Request)
  /\ proc[p].OutputFilePath # S_empty
  /\ sent' = sent + 1
  /\ \E resp \in Responses :
       proc' = [ proc EXCEPT ![p] =
                   [ proc[p] EXCEPT !.pc = "done",
                                    !.calls = Append(@, proc[p].Request),
                                    !.Response = resp,
                                    !.err = "Error writing output file" ] ]
  /\ outFiles' \in { outFiles, WithFile(outFiles, proc[p].OutputFilePath, S_empty) }
  /\ UNCHANGED << dir, clock, lst >>

\* saveJson, lines 298-301: os.Create fails, there is no file
CreateFails(p) ==
  /\ proc[p].pc = "save"
  /\ proc' = [ proc EXCEPT ![p] =
                 [ proc[p] EXCEPT !.pc = "done", !.EndTime = clock,
                                  !.Duration = clock - proc[p].StartTime,
                                  !.err = "Error creating new file" ] ]
  /\ UNCHANGED << dir, clock, lst, outFiles, sent >>

\* saveJson, lines 304-311: file.Write fails or is short, the file stays
\* as os.Create left it
WriteFails(p) ==
  /\ proc[p].pc = "write"
  /\ proc' = [ proc EXCEPT ![p] =
                 [ proc[p] EXCEPT !.pc = "done",
                                  !.err = "Error writing json data to file" ] ]
  /\ UNCHANGED << dir, clock, lst, outFiles, sent >>

\* history save N OUTPATH: the response body of record N is copied to
\* OUTPATH, the history is left as it is
HistorySave(p, args) ==
  /\ proc[p].pc = "idle"
  /\ DetermineMode(args) = S_history
  /\ historyModeOf(args) = S_save
  /\ LET app == [ NewApp(args, clock) EXCEPT !.Mode = S_history, !.HistoryMode = S_save ]
         ld == loadAppFromHistory(dir, args)
         loaded == [ app EXCEPT !.HistoryRecordId = ld.HistoryRecordId,
                                !.historyFile = ld.fileName ]
     IN  IF ld.err # ""
         THEN /\ proc' = [ proc EXCEPT ![p] = [ loaded EXCEPT !.err = ld.err ] ]
              /\ outFiles' = outFiles
         ELSE IF Len(args) < 4
         THEN /\ proc' = [ proc EXCEPT ![p] = [ loaded EXCEPT !.err = "Missing output path." ] ]
              /\ outFiles' = outFiles
         ELSE /\ proc' = [ proc EXCEPT ![p] = [ loaded EXCEPT !.OutputFilePath = args[4] ] ]
              /\ outFiles' = WithFile(outFiles, args[4], ld.historyApp.Response.Body)
  /\ UNCHANGED << dir, clock, lst, sent >>

\* command lines of every mode and of every outcome
AllArgLists ==
  { << >>,
    << S_version >>,
    << S_get >>,
    << << "-", "v" >> >>,
    << S_urlA >>,
    << S_urlA, << "-", "o" >>, S_out >>,
    << S_urlA, << "-", "o" >> >>,
    << S_urlA, << "-", "d" >>, S_data >>,
    << S_post, S_urlA, << "-", "d" >>, S_data, << "-", "o" >>, S_out >>,
    << S_history >>,
    << S_history, S_detail, Itoa(1) >>,
    << S_history, S_replay, Itoa(1) >>,
    << S_history, S_replay, Itoa(2) >>,
    << S_history, S_save, Itoa(1), S_in >>,
    << S_history, S_save, Itoa(2), S_in >>,
    << S_history, S_save, Itoa(1) >> }

NextAll ==
  \/ \E args \in AllArgLists : Start("p1", args)
  \/ \E args \in AllArgLists : HistorySave("p1", args)
  \/ Send("p1")
  \/ SendOutputFails("p1")
  \/ Create("p1")
  \/ CreateFails("p1")
  \/ Write("p1")
  \/ WriteFails("p1")
  \/ Exit("p1")

SpecAll == Init /\ [][NextAll]_vars

(***************************************************************************)
(* Notions the claims are stated in                                        *)
(***************************************************************************)
\* the entries whose name does not start with "."
NonHidden(d) == { n \in DOMAIN d : Len(n) = 0 \/ n[1] # "." }

\* 1-based place of name n among the non-hidden entries, greatest name first
Rank(d, n) == 1 + Cardinality({ m \in NonHidden(d) : StrLess(n, m) })

\* the non-hidden entries, greatest name first
NewestFirst(d) ==
  [ k \in 1..Cardinality(NonHidden(d)) |-> CHOOSE n \in NonHidden(d) : Rank(d, n) = k ]

Min(a, b) == IF a < b THEN a ELSE b

\* the entries of a sequence that satisfy the filter of a listing
Filtered(seq, find, caseInsensitive) ==
  SelectSeq(seq, LAMBDA n : find = S_empty \/ Contains(n, find)
                             \/ (caseInsensitive /\ Contains(ToLower(n), ToLower(find))))

\* seq[from..to], empty when from > to
Slice(seq, from, to) == IF from > to THEN << >> ELSE SubSeq(seq, from, to)

\* the directory without its dot files
WithoutHidden(d) == [ n \in NonHidden(d) |-> d[n] ]

(***************************************************************************)
(* Claims about the listing                                                *)
(***************************************************************************)
\* C1: every entry a listing returns carries its 1-based place among the
\* non-hidden entries sorted by name descending, whatever skip, limit, find
\* and caseInsensitive are; the index is the one the unfiltered listing of
\* the same directory attaches to that entry.
C1_DisplayIndexIsRank ==
  lst.called =>
    LET r == lst.res
        all == getHistoryRecords(dir, 0, 0, S_empty, FALSE)
    IN  /\ Len(r.itemIndexes) = Len(r.items)
        /\ \A k \in 1..Len(r.items) :
             /\ r.itemIndexes[k] = Rank(dir, r.items[k])
             /\ \E j \in 1..Len(all.items) :
                  all.items[j] = r.items[k] /\ all.itemIndexes[j] = r.itemIndexes[k]

\* a filtered listing whose first result is not the newest entry
C1_Witness ==
  /\ lst.called
  /\ lst.find # S_empty
  /\ lst.skip = 0
  /\ Len(lst.res.items) >= 2
  /\ lst.res.itemIndexes[1] > 1
  /\ lst.res.itemIndexes[2] > lst.res.itemIndexes[1] + 1

\* C5: with find empty a listing returns exactly the entries at newest-first
\* places skip+1 .. min(N, skip+limit) (skip+1 .. N when limit <= 0), in
\* descending name order, and skippedCount = min(skip, N).
C5_UnfilteredPage ==
  (lst.called /\ lst.find = S_empty) =>
    LET nf == NewestFirst(dir)
        N == Len(nf)
        last == IF lst.limit <= 0 THEN N ELSE Min(N, lst.skip + lst.limit)
    IN  /\ lst.res.items = Slice(nf, lst.skip + 1, last)
        /\ lst.res.numSkipped = Min(lst.skip, N)
        /\ \A k \in 1..(Len(lst.res.items) - 1) :
             StrLess(lst.res.items[k + 1], lst.res.items[k])

\* an unfiltered page in the middle of a directory with dot files
C5_Witness ==
  /\ lst.called
  /\ lst.find = S_empty
  /\ lst.skip >= 1
  /\ lst.limit >= 2
  /\ Len(lst.res.items) = lst.limit
  /\ lst.skip + lst.limit < Cardinality(NonHidden(dir))
  /\ S_dotfile \in DOMAIN dir

\* C6: with a non-empty find, skip is the number of matching records
\* omitted: the listing returns the matching records that follow the first
\* skip matching records, newest first, up to limit of them.
C6_SkipCountsMatches ==
  (lst.called /\ lst.find # S_empty) =>
    LET m == Filtered(NewestFirst(dir), lst.find, lst.caseInsensitive)
        last == IF lst.limit <= 0 THEN Len(m) ELSE Min(Len(m), lst.skip + lst.limit)
    IN  lst.res.items = Slice(m, lst.skip + 1, last)

\* C7: totalCount is the number of non-hidden entries, and "Nothing in
\* history." is printed exactly when that number is 0.
C7_TotalCountsNonHidden ==
  lst.called =>
    /\ lst.res.numTotal = Cardinality(NonHidden(dir))
    /\ (lst.printed.msg = "Nothing in history.") <=> (Cardinality(NonHidden(dir)) = 0)

\* C8: no dot file is returned, and dot files consume no display index and
\* no unit of skip, skippedCount or limit: the listing is the one of the
\* same directory without its dot files.
C8_HiddenInvisible ==
  lst.called =>
    LET r == lst.res
        bare == getHistoryRecords(WithoutHidden(dir), lst.skip, lst.limit,
                                  lst.find, lst.caseInsensitive)
    IN  /\ \A k \in 1..Len(r.items) : r.items[k][1] # "."
        /\ r.items = bare.items
        /\ r.itemIndexes = bare.itemIndexes
        /\ r.numSkipped = bare.numSkipped

\* the walk passed a dot file and then included a visible entry below it
C8_Witness ==
  /\ lst.called
  /\ S_dotfile \in DOMAIN dir
  /\ S_lowfile \in DOMAIN dir
  /\ lst.skip >= 1
  /\ lst.limit >= 1
  /\ Len(lst.res.items) = lst.limit
  /\ lst.res.items[Len(lst.res.items)] = S_lowfile

\* C9: for limit >= 1 a listing returns at most limit entries and the walk
\* stops at the entry that filled the page, so that older entries are
\* neither included nor counted as skipped; for limit <= 0, and when the
\* page is not filled, every directory entry is walked.
C9_LimitStopsWalk ==
  lst.called =>
    LET r == lst.res
        fi == ReadDir(dir)
        walked == { fi[k] : k \in (r.i + 1)..Len(fi) }
        inItems == { r.items[k] : k \in 1..Len(r.items) }
    IN  /\ lst.limit >= 1 => Len(r.items) <= lst.limit
        /\ (lst.limit >= 1 /\ Len(r.items) = lst.limit) =>
              fi[r.i + 1] = r.items[Len(r.items)]
        /\ (lst.limit <= 0 \/ Len(r.items) < lst.limit) => r.i = 0
        /\ inItems \subseteq walked
        /\ r.numSkipped = Cardinality((walked \cap NonHidden(dir)) \ inItems)

\* a full page with older matching entries left unwalked
C9_Witness ==
  /\ lst.called
  /\ lst.limit >= 1
  /\ Len(lst.res.items) = lst.limit
  /\ lst.res.i >= 2
  /\ \E k \in 1..lst.res.i :
        /\ ~IsHidden(ReadDir(dir)[k])
        /\ Matches(ReadDir(dir)[k], lst.find, lst.caseInsensitive)

\* the filter of a listing, said of one name
MatchesFind(n, find, caseInsensitive) ==
  \/ find = S_empty
  \/ Contains(n, find)
  \/ (caseInsensitive /\ Contains(ToLower(n), ToLower(find)))

\* the number of non-hidden entries the walk of the listing has visited:
\* the entries of the sorted directory above the place where it stopped
WalkedNonHidden ==
  Cardinality({ k \in (lst.res.i + 1)..Len(ReadDir(dir)) : ~IsHidden(ReadDir(dir)[k]) })

\* the k-th newest non-hidden entry is among the results of the listing
Included(k) ==
  \E j \in 1..Len(lst.res.items) : lst.res.items[j] = NewestFirst(dir)[k]

\* C23: a non-hidden entry the walk visits is included iff the count of
\* skipped entries has reached skip when the walk is at it and it matches
\* the filter; every other non-hidden entry visited adds one to the count,
\* so that at the end the count plus the number of results is the number of
\* non-hidden entries visited.
C23_InclusionRule ==
  lst.called =>
    LET r == lst.res
        w == WalkedNonHidden
        SkippedBefore(k) == Cardinality({ j \in 1..(k - 1) : ~Included(j) })
    IN  /\ w <= Cardinality(NonHidden(dir))
        /\ \A k \in 1..w :
              Included(k) <=>
                 (/\ SkippedBefore(k) >= lst.skip
                  /\ MatchesFind(NewestFirst(dir)[k], lst.find, lst.caseInsensitive))
        /\ \A j \in 1..Len(r.items) : \E k \in 1..w : r.items[j] = NewestFirst(dir)[k]
        /\ r.numSkipped = Cardinality({ k \in 1..w : ~Included(k) })
        /\ r.numSkipped + Len(r.items) = w

\* a listing with skip 1 and a filter has returned an entry, has passed a
\* matching entry before the count reached skip and an entry that does not
\* match
C23_Witness ==
  /\ lst.called
  /\ lst.skip = 1
  /\ lst.find # S_empty
  /\ Len(lst.res.items) >= 1
  /\ \E k \in 1..WalkedNonHidden :
        ~Included(k) /\ MatchesFind(NewestFirst(dir)[k], lst.find, lst.caseInsensitive)
  /\ \E k \in 1..WalkedNonHidden :
        ~MatchesFind(NewestFirst(dir)[k], lst.find, lst.caseInsensitive)

\* C27: skip counts places of the unfiltered walk: whatever find and
\* caseInsensitive are, every entry a listing returns has a display index
\* greater than skip, and none of the newest skip non-hidden entries is
\* returned, whether it matches the filter or not.
C27_SkipIsPositional ==
  lst.called =>
    /\ \A j \in 1..Len(lst.res.items) :
          /\ lst.res.itemIndexes[j] > lst.skip
          /\ Rank(dir, lst.res.items[j]) > lst.skip
    /\ \A k \in 1..Min(lst.skip, Cardinality(NonHidden(dir))) : ~Included(k)

\* a filtered listing with skip 2 has returned an entry, and one of the two
\* newest entries matches the filter
C27_Witness ==
  /\ lst.called
  /\ lst.skip = 2
  /\ lst.find # S_empty
  /\ Len(lst.res.items) >= 1
  /\ Cardinality(NonHidden(dir)) >= 3
  /\ \E k \in 1..2 : MatchesFind(NewestFirst(dir)[k], lst.find, lst.caseInsensitive)

\* C28: in the header "Displaying X to Y of T" of a listing Y is at most T,
\* and without a filter X and Y are the display indexes of the first and of
\* the last record listed.
C28_HeaderBounds ==
  (lst.called /\ lst.printed.msg = "Displaying") =>
    /\ lst.printed.to <= lst.printed.of
    /\ lst.find = S_empty =>
         /\ lst.printed.from = lst.res.itemIndexes[1]
         /\ lst.printed.to = lst.res.itemIndexes[Len(lst.res.itemIndexes)]

(***************************************************************************)
(* Claims about invocations                                                *)
(***************************************************************************)
\* the invocation of p is a history detail or replay with a numeric index
\* and has not written to the directory since it loaded the record
LoadedByIndex(p) ==
  /\ proc[p].pc \in { "send", "save", "done" }
  /\ proc[p].Mode = S_history
  /\ proc[p].HistoryMode \in { S_detail, S_replay }
  /\ Len(proc[p].Args) >= 3
  /\ Atoi(proc[p].Args[3]).ok
  /\ proc[p].jsonBytes = << >>

LoadErrors == { "No history records found.", "Invalid history record index" }

\* C2: with N non-hidden records in the directory, loading by index n
\* succeeds and loads the file an unfiltered listing shows at index n when
\* 1 <= n <= N, and is an error for every n < 1 and every n > N.
C2_LoadByIndex ==
  \A p \in Procs :
    LoadedByIndex(p) =>
      LET a == proc[p]
          n == Atoi(a.Args[3]).value
          N == Cardinality(NonHidden(dir))
          shown == getHistoryRecords(dir, 0, 0, S_empty, FALSE)
      IN  /\ (1 <= n /\ n <= N) =>
                /\ a.err \in { "", "Error sending request" }
                /\ shown.itemIndexes[n] = n
                /\ a.historyFile = shown.items[n]
                /\ a.historyFile = NewestFirst(dir)[n]
                /\ a.HistoryMode = S_detail => a.printed.app = dir[a.historyFile].doc
                /\ a.HistoryMode = S_replay => a.Request = dir[a.historyFile].doc.Request
          /\ (n < 1 \/ n > N) =>
                /\ a.err \in LoadErrors
                /\ a.pc = "done"
                /\ a.historyFile = S_empty
                /\ a.calls = << >>

\* record 2 of three is loaded from a directory that also holds a dot file
C2_Witness ==
  /\ LoadedByIndex("p1")
  /\ S_dotfile \in DOMAIN dir
  /\ Cardinality(NonHidden(dir)) = 3
  /\ Atoi(proc["p1"].Args[3]).value = 2
  /\ proc["p1"].err = ""
  /\ proc["p1"].historyFile = NewestFirst(dir)[2]

\* the step is the network call of a replay by p, and it succeeds
ReplayCalls(p) ==
  /\ proc[p].pc = "send"
  /\ proc[p].HistoryMode = S_replay
  /\ proc'[p].pc = "save"

\* the step is a step of a replay by p that writes to the directory
ReplaySaves(p) ==
  /\ proc[p].pc \in { "save", "write" }
  /\ proc[p].HistoryMode = S_replay
  /\ proc'[p].pc \in { "write", "done" }

\* C3: a replay of record n makes one HTTP call with the method, URL,
\* content type, accept and body stored in record n, and leaves the
\* directory with one record more, the file of record n still there with
\* its content unchanged.
C3_ReplayAppends ==
  [][ \A p \in Procs :
        LET stored == dir[proc[p].historyFile].doc.Request
        IN  /\ ReplayCalls(p) =>
                 /\ Len(proc'[p].calls) = 1
                 /\ proc'[p].calls[1].Method = stored.Method
                 /\ proc'[p].calls[1].URL = stored.URL
                 /\ proc'[p].calls[1].ContentType = stored.ContentType
                 /\ proc'[p].calls[1].Accept = stored.Accept
                 /\ proc'[p].calls[1].Body = stored.Body
            /\ ReplaySaves(p) =>
                 /\ proc[p].historyFile \in DOMAIN dir'
                 /\ dir'[proc[p].historyFile] = dir[proc[p].historyFile]
                 /\ proc[p].pc = "save" =>
                      Cardinality(NonHidden(dir')) = Cardinality(NonHidden(dir)) + 1
                 /\ proc[p].pc = "write" =>
                      Cardinality(NonHidden(dir')) = Cardinality(NonHidden(dir))
    ]_vars

\* C4: a history file once written keeps its name and content and is never
\* removed, and every successful request or replay adds exactly one new
\* file to the directory.
C4_RecordsImmutable ==
  [][ /\ \A f \in DOMAIN dir :
           dir[f].kind = "json" => (f \in DOMAIN dir' /\ dir'[f] = dir[f])
      /\ \A p \in Procs :
           (proc[p].pc = "save" /\ proc'[p].pc = "write") =>
              /\ proc'[p].fileName \notin DOMAIN dir
              /\ DOMAIN dir' = DOMAIN dir \cup { proc'[p].fileName }
    ]_vars

\* C10 as stated: help when there is no argument or a -h/--help token, else
\* version when there is a -v/--version token, else history when the first
\* argument is "history" ignoring case, else http.
C10_ModeByFlags ==
  \A p \in Procs :
    proc[p].pc # "idle" => proc[p].Mode = ModeByFlags(proc[p].Args)

\* C10 amended: help when there is no argument; otherwise the first
\* argument decides, ignoring case: "help", "version" and "history" select
\* the mode of that name and anything else selects http; tokens -h, --help,
\* -v and --version select nothing, so [history, -h] is history and [-v]
\* is http.
C10_ModeByFirstArgument ==
  \A p \in Procs :
    proc[p].pc # "idle" =>
      LET a == proc[p]
          first == ToLower(a.Args[1])
      IN  /\ Len(a.Args) = 0 => a.Mode = S_help
          /\ Len(a.Args) > 0 =>
               a.Mode = IF first \in { S_help, S_version, S_history } THEN first ELSE S_http
          /\ a.Args = << S_history, << "-", "h" >> >> => a.Mode = S_history
          /\ a.Args = << << "-", "v" >> >> => a.Mode = S_http

\* the invocation "history -h" ran as a history listing
C10_Witness ==
  /\ proc["p1"].pc = "done"
  /\ proc["p1"].Args = << S_history, << "-", "h" >> >>
  /\ proc["p1"].Mode = S_history
  /\ proc["p1"].printed.msg = "Nothing in history."

(***************************************************************************)
(* Claims about the option reader and the request builder                  *)
(***************************************************************************)
\* the invocation of p is an http invocation that has started
HttpStarted(p) == proc[p].pc # "idle" /\ proc[p].Mode = S_http

\* the invocation of p has built its request
RequestBuilt(p) == HttpStarted(p) /\ proc[p].Request # NoRequest

\* the places of the aliases of an option in an argument list
Hits(args, optMap) == { i \in 1..Len(args) : args[i] \in optMap }

FirstOf(S) == CHOOSE i \in S : \A k \in S : i <= k
LastOf(S) == CHOOSE i \in S : \A k \in S : i >= k

\* the options of an http command line that take a value
ValueOptMaps ==
  { inputFlagMap, outputFlagMap, contentTypeOptMap, acceptOptMap, timeoutOptMap, dataOptMap }

\* C11 as stated: the value of an option is the token after the last
\* occurrence of its aliases, and the default when no alias occurs (read off
\* the output path of a built request, whose default is the empty string).
C11_LastOccurrence ==
  \A p \in Procs :
    RequestBuilt(p) =>
      LET a == proc[p]
          h == Hits(a.Args, outputFlagMap)
      IN  /\ h = {} => a.OutputFilePath = S_empty
          /\ (h # {} /\ LastOf(h) < Len(a.Args)) =>
                a.OutputFilePath = a.Args[LastOf(h) + 1]

\* C11 amended: the value of an option is the token after the first
\* occurrence of its aliases, whatever follows later in the argument list,
\* and the default when no alias occurs.
C11_FirstOccurrence ==
  \A p \in Procs :
    RequestBuilt(p) =>
      LET a == proc[p]
          h == Hits(a.Args, outputFlagMap)
      IN  /\ h = {} => a.OutputFilePath = S_empty
          /\ h # {} => /\ FirstOf(h) < Len(a.Args)
                       /\ a.OutputFilePath = a.Args[FirstOf(h) + 1]

\* a request was built from "-o out -o in" and its output path is "out"
C11_Witness ==
  /\ RequestBuilt("p1")
  /\ Cardinality(Hits(proc["p1"].Args, outputFlagMap)) = 2
  /\ LastOf(Hits(proc["p1"].Args, outputFlagMap)) < Len(proc["p1"].Args)
  /\ proc["p1"].Args[LastOf(Hits(proc["p1"].Args, outputFlagMap)) + 1] = S_in
  /\ proc["p1"].OutputFilePath = S_out

\* C12: when the last token of the argument list is an alias of an option
\* that takes a value, the option reader does not read past the end of the
\* list: the invocation does not panic, the option has its default, and
\* without another error the request is built.
C12_TrailingAliasGivesDefault ==
  \A p \in Procs :
    (/\ HttpStarted(p)
     /\ Len(proc[p].Args) >= 2
     /\ \E m \in ValueOptMaps : proc[p].Args[Len(proc[p].Args)] \in m) =>
      LET a == proc[p]
      IN  /\ ~a.panic
          /\ a.err = "" => RequestBuilt(p)
          /\ (RequestBuilt(p) /\ Hits(a.Args, outputFlagMap) = { Len(a.Args) }) =>
                a.OutputFilePath = S_empty

\* the method an http command line asks for, and the place of its URL
MethodOf(args) ==
  IF \E k \in 1..Len(RequestMethods) : RequestMethods[k] = ToUpper(args[1])
  THEN ToUpper(args[1]) ELSE S_GET

UrlIndexOf(args) ==
  IF \E k \in 1..Len(RequestMethods) : RequestMethods[k] = ToUpper(args[1]) THEN 2 ELSE 1

\* the tokens that follow the aliases of an option
ValuesOf(args, optMap) ==
  { args[i + 1] : i \in { h \in Hits(args, optMap) : h < Len(args) } }

DataFlagError == "Data flag is only valid for POST, PATCH, and PUT requests."

\* C13: an http invocation with a URL, a non-empty -d/--data value and the
\* method GET, HEAD or DELETE (GET also by default) ends in CreateRequest
\* with the data flag error: no request is built, no network call is made,
\* no output file and no history record is written.
C13_DataRejected ==
  \A p \in Procs :
    (/\ HttpStarted(p)
     /\ Len(proc[p].Args) >= UrlIndexOf(proc[p].Args)
     /\ MethodOf(proc[p].Args) \in { S_GET, S_HEAD, S_DELETE }
     /\ \E v \in ValuesOf(proc[p].Args, dataOptMap) : v # S_empty) =>
      /\ proc[p].err = DataFlagError
      /\ ~proc[p].panic
      /\ proc[p].pc = "done"
      /\ proc[p].Request = NoRequest
      /\ proc[p].calls = << >>
      /\ proc[p].fileName = S_empty
      /\ sent = 0
      /\ outFiles = << >>
      /\ NonHidden(dir) = {}

FirstValue(args, optMap) ==
  IF Hits(args, optMap) = {} \/ FirstOf(Hits(args, optMap)) >= Len(args)
  THEN S_empty
  ELSE args[FirstOf(Hits(args, optMap)) + 1]

\* the body the data value and the input file give
BodyFrom(data, input) ==
  IF data # S_empty THEN data
  ELSE IF input \in DOMAIN InputFiles THEN InputFiles[input]
  ELSE S_empty

\* the command line of p names an input file that does not exist, and no
\* data, and ends with a value
OnlyMissingInput(p) ==
  /\ HttpStarted(p)
  /\ Len(proc[p].Args) >= UrlIndexOf(proc[p].Args)
  /\ Hits(proc[p].Args, dataOptMap) = {}
  /\ FirstValue(proc[p].Args, inputFlagMap) = S_nofile
  /\ \A m \in ValueOptMaps : proc[p].Args[Len(proc[p].Args)] \notin m

\* C15 as stated: for every method, the body of a built request is the data
\* string when one is given, otherwise the content of the input file when
\* it exists, otherwise empty; a missing input file is not an error.
C15_BodyForEveryMethod ==
  \A p \in Procs :
    /\ RequestBuilt(p) =>
         proc[p].Request.Body = BodyFrom(FirstValue(proc[p].Args, dataOptMap),
                                         FirstValue(proc[p].Args, inputFlagMap))
    /\ OnlyMissingInput(p) => RequestBuilt(p)

\* C15 amended: for POST, PUT and PATCH the body of a built request is the
\* data string when one is given, otherwise the content of the input file
\* when it exists, otherwise empty; for GET, HEAD and DELETE the body is
\* empty and the input file is not read; a missing input file is not an
\* error.
C15_BodyForBodyMethods ==
  \A p \in Procs :
    /\ RequestBuilt(p) =>
         LET a == proc[p]
         IN  /\ a.Request.Method \in { S_POST, S_PUT, S_PATCH } =>
                  a.Request.Body = BodyFrom(FirstValue(a.Args, dataOptMap),
                                            FirstValue(a.Args, inputFlagMap))
             /\ a.Request.Method \in { S_GET, S_HEAD, S_DELETE } =>
                  a.Request.Body = S_empty
             /\ a.Request.ContentLength = Len(a.Request.Body)
    /\ OnlyMissingInput(p) => RequestBuilt(p)

\* a GET request was built from "-i in", the file exists, the body is empty
C15_Witness ==
  /\ RequestBuilt("p1")
  /\ proc["p1"].Request.Method = S_GET
  /\ FirstValue(proc["p1"].Args, inputFlagMap) = S_in
  /\ S_in \in DOMAIN InputFiles
  /\ proc["p1"].Request.Body = S_empty

(***************************************************************************)
(* Claims about the history records                                        *)
(***************************************************************************)
\* the invocation of p has sent its request and written its record
RecordWritten(p) ==
  /\ proc[p].pc = "done"
  /\ proc[p].fileName # S_empty
  /\ proc[p].calls # << >>

\* what loading by display index gives for the record p has written
LoadOwnRecord(p) ==
  loadAppFromHistory(dir, << S_history, S_detail, Itoa(Rank(dir, proc[p].fileName)) >>)

\* C16: after a successful request whose record is written, loading the
\* record by its display index (its place among the non-hidden names, the
\* greatest first) gives the method, the URL and the body that were sent.
C16_RoundTrip ==
  \A p \in Procs :
    RecordWritten(p) =>
      LET sentRequest == proc[p].calls[Len(proc[p].calls)]
          ld == LoadOwnRecord(p)
      IN  /\ ld.err = ""
          /\ ld.fileName = proc[p].fileName
          /\ ld.historyApp.Request.Method = sentRequest.Method
          /\ ld.historyApp.Request.URL = sentRequest.URL
          /\ UrlString(ld.historyApp.Request.URL) = UrlString(sentRequest.URL)
          /\ ld.historyApp.Request.Body = sentRequest.Body

\* C17: the name of a record that is written later is lexically greater
\* than the name of every record written before it, also when the two
\* invocations start within the same clock second.
C17_LaterIsGreater ==
  [][ \A p \in Procs :
        (proc[p].pc = "save" /\ proc'[p].pc = "write") =>
           \A m \in NonHidden(dir) \ { proc'[p].fileName } :
              StrLess(m, proc'[p].fileName)
    ]_vars

\* s begins with pre, s ends with suf
StartsWith(s, pre) == Len(s) >= Len(pre) /\ SubSeq(s, 1, Len(pre)) = pre
EndsWith(s, suf) ==
  Len(s) >= Len(suf) /\ SubSeq(s, Len(s) - Len(suf) + 1, Len(s)) = suf

\* the 19 characters of the start second with "_" for ":", " " and "-"
Timestamp(t) ==
  [ i \in 1..19 |-> IF FormatTime(t)[i] \in { ":", " ", "-" } THEN "_" ELSE FormatTime(t)[i] ]

\* the invocation of p has named its history file
Named(p) == proc[p].pc \in { "write", "done" } /\ proc[p].fileName # S_empty

\* C18 as stated: a history file is named method, "__", sanitized URL,
\* "__", timestamp, ".json" in this order.
C18_MethodUrlTimestamp ==
  \A p \in Procs :
    Named(p) =>
      /\ StartsWith(proc[p].fileName, proc[p].Request.Method \o S_sep)
      /\ EndsWith(proc[p].fileName, S_sep \o Timestamp(proc[p].StartTime) \o S_json)

\* C18 amended: a history file is named timestamp, "__", method, "__",
\* sanitized URL in this order, cut after 196 characters, then ".json"; the
\* timestamp is the second the invocation started in.
C18_TimestampMethodUrl ==
  \A p \in Procs :
    Named(p) =>
      LET a == proc[p]
          full == Timestamp(a.StartTime) \o S_sep \o a.Request.Method \o S_sep
                    \o cleanUrl(UrlString(a.Request.URL))
          stem == SubSeq(a.fileName, 1, Len(a.fileName) - Len(S_json))
      IN  /\ EndsWith(a.fileName, S_json)
          /\ StartsWith(a.fileName, Timestamp(a.StartTime) \o S_sep \o a.Request.Method \o S_sep)
          /\ StartsWith(full, stem)
          /\ Len(stem) = Min(Len(full), 196)

\* a POST to http://a.co started in second 1 is about to write
\* 2014_01_01_00_00_01__POST__http_a_co.json
C18_Witness ==
  /\ Named("p1")
  /\ proc["p1"].pc = "write"
  /\ proc["p1"].StartTime = 1
  /\ proc["p1"].fileName =
       << "2", "0", "1", "4", "_", "0", "1", "_", "0", "1", "_",
          "0", "0", "_", "0", "0", "_", "0", "1", "_", "_",
          "P", "O", "S", "T", "_", "_",
          "h", "t", "t", "p", "_", "a", "_", "c", "o", ".", "j", "s", "o", "n" >>
  /\ proc["p1"].fileName \in DOMAIN dir

\* the part of the file name of p that comes from the URL
UrlPart(p) ==
  SubSeq(proc[p].fileName, 19 + 2 + Len(proc[p].Request.Method) + 2 + 1,
         Len(proc[p].fileName) - 5)

\* C19: the URL part of a history file name has only characters of
\* [A-Za-z0-9_] and no two "_" in a row; the name has at most 201
\* characters, begins with the 19 characters of the timestamp, "__", the
\* method and "__", continues with the cleaned URL or, when that is too
\* long, with its beginning, and ends in ".json".
C19_FileNameShape ==
  \A p \in Procs :
    Named(p) =>
      LET a == proc[p]
          u == UrlPart(p)
      IN  /\ Len(a.fileName) <= 201
          /\ EndsWith(a.fileName, << ".", "j", "s", "o", "n" >>)
          /\ StartsWith(a.fileName,
                        Timestamp(a.StartTime) \o S_sep \o a.Request.Method \o S_sep)
          /\ \A i \in 1..Len(u) : IsWordChar(u[i])
          /\ \A i \in 1..(Len(u) - 1) : ~(u[i] = "_" /\ u[i + 1] = "_")
          /\ StartsWith(cleanUrl(UrlString(a.Request.URL)), u)
          /\ Len(a.fileName) < 201 => u = cleanUrl(UrlString(a.Request.URL))

\* a DELETE of a long URL has a file name of 201 characters that holds the
\* beginning of the cleaned URL only
C19_Witness ==
  /\ Named("p1")
  /\ proc["p1"].Request.Method = S_DELETE
  /\ Len(proc["p1"].fileName) = 201
  /\ Len(UrlPart("p1")) < Len(cleanUrl(UrlString(proc["p1"].Request.URL)))
  /\ Len(UrlString(proc["p1"].Request.URL)) > 196

\* C20: a history record appears in the directory with its whole content:
\* no invocation that loads a record for history detail or replay finds a
\* file it cannot parse.
C20_AtomicWrite ==
  \A p \in Procs :
    (proc[p].pc # "idle" /\ proc[p].Mode = S_history) =>
       proc[p].err # "Error unmarshalling json"

(***************************************************************************)
(* Claims about the course of an invocation                                *)
(***************************************************************************)
\* how far an invocation has come
PcRank(pc) ==
  CASE pc = "idle" -> 0 [] pc = "send" -> 1 [] pc = "save" -> 2
    [] pc = "write" -> 3 [] pc = "done" -> 4

\* the paths whose file differs between two sets of files
Changed(f, g) ==
  { n \in DOMAIN f \cup DOMAIN g :
      n \notin DOMAIN f \/ n \notin DOMAIN g \/ f[n] # g[n] }

\* C21: an invocation, in any mode and on any outcome, makes at most one
\* HTTP call, writes at most one history file and at most one output file
\* and then ends: it only moves forward from the call to the output file to
\* the history file to its end, a call is made only by the step that leaves
\* the call, a failed call ends the invocation, and the history file is the
\* one file named when the record is saved.
C21_OneCallOneRecord ==
  [][ \A p \in Procs :
        LET a == proc[p]
            b == proc'[p]
        IN  /\ b.pc # "idle" => Len(b.calls) <= 1
            /\ (a # b /\ a.pc # "done") => PcRank(b.pc) > PcRank(a.pc)
            /\ a.pc = "done" => b \in { a, IdleApp }
            /\ (a.pc # "idle" /\ b.pc # "idle" /\ b.calls # a.calls) =>
                  (a.pc = "send" /\ a.calls = << >> /\ sent' = sent + 1)
            /\ (a.pc = "send" /\ b.pc = "done") => b.err # ""
            /\ (a.pc \notin { "save", "write" }) => (a # b => dir' = dir)
            /\ (a.pc = "save" /\ a # b) => Changed(dir, dir') \subseteq { b.fileName }
            /\ (a.pc = "write" /\ a # b) =>
                  (Changed(dir, dir') \subseteq { a.fileName } /\ DOMAIN dir' = DOMAIN dir)
            /\ (a.pc \notin { "idle", "send" }) => (a # b => outFiles' = outFiles)
            /\ a # b => Cardinality(Changed(outFiles, outFiles')) <= 1
    ]_vars

\* an invocation has ended after one call, one output file and one record
C21_Witness ==
  /\ proc["p1"].pc = "done"
  /\ proc["p1"].err = ""
  /\ Len(proc["p1"].calls) = 1
  /\ proc["p1"].OutputFilePath \in DOMAIN outFiles
  /\ proc["p1"].fileName \in DOMAIN dir
  /\ dir[proc["p1"].fileName] = JsonFile(proc["p1"].jsonBytes)

\* the first token of the command line of p is an HTTP verb in some case
FirstIsVerb(p) ==
  \E k \in 1..Len(RequestMethods) :
     ToLower(proc[p].Args[1]) = ToLower(RequestMethods[k])

InvalidArguments == "Invalid arguments. Try 'gohttp help' for usage details."

\* C22: in http mode a first token that is GET, HEAD, POST, PUT, PATCH or
\* DELETE in any case is the method and the second token is the URL;
\* otherwise the method is GET and the first token is the URL; a verb with
\* no token after it ends with the "Invalid arguments" error and without a
\* network call.
C22_MethodAndUrl ==
  \A p \in Procs :
    HttpStarted(p) =>
      LET a == proc[p]
      IN  /\ (RequestBuilt(p) /\ FirstIsVerb(p)) =>
                /\ ToLower(a.Request.Method) = ToLower(a.Args[1])
                /\ \E k \in 1..Len(RequestMethods) : a.Request.Method = RequestMethods[k]
                /\ Len(a.Args) >= 2
                /\ UrlString(a.Request.URL) = a.Args[2]
          /\ (RequestBuilt(p) /\ ~FirstIsVerb(p)) =>
                /\ a.Request.Method = S_GET
                /\ UrlString(a.Request.URL) = a.Args[1]
          /\ (FirstIsVerb(p) /\ Len(a.Args) = 1) =>
                /\ a.err = InvalidArguments
                /\ a.pc = "done"
                /\ a.Request = NoRequest
                /\ a.calls = << >>
                /\ sent = 0

\* the command line "put http://a.co ..." has built a PUT request to
\* http://a.co
C22_Witness ==
  /\ RequestBuilt("p1")
  /\ proc["p1"].Args[1] = << "p", "u", "t" >>
  /\ proc["p1"].Request.Method = S_PUT
  /\ UrlString(proc["p1"].Request.URL) = S_urlA

\* the token is a decimal number with an optional sign "-"
IsNumber(s) ==
  LET digits == IF Len(s) >= 1 /\ s[1] = "-" THEN Tail(s) ELSE s
  IN  Len(digits) >= 1 /\ \A k \in 1..Len(digits) : digits[k] \in DigitChars

\* the number a token is
NumberOf(s) ==
  IF s[1] = "-" THEN 0 - DigitsValue(Tail(s)) ELSE DigitsValue(s)

\* C25: a history detail or replay with fewer than three arguments ends
\* with "Missing history record index."; with an index that is no number
\* it ends with an error; with an index n > N, or any index when there is
\* no non-hidden record, with "No history records found."; with n <= 0 and
\* N > 0 with "Invalid history record index"; in all these cases it reads
\* no file, makes no call and writes nothing.
C25_LoadErrors ==
  [][ \A p \in Procs :
        (/\ proc[p].pc = "idle"
         /\ proc'[p].pc # "idle"
         /\ proc'[p].Mode = S_history
         /\ proc'[p].HistoryMode \in { S_detail, S_replay }) =>
          LET b == proc'[p]
              N == Cardinality(NonHidden(dir))
              n == NumberOf(b.Args[3])
              fails == \/ Len(b.Args) < 3
                       \/ ~IsNumber(b.Args[3])
                       \/ n > N
                       \/ n <= 0
          IN  /\ Len(b.Args) < 3 => b.err = "Missing history record index."
              /\ (Len(b.Args) >= 3 /\ ~IsNumber(b.Args[3])) => b.err # ""
              /\ (Len(b.Args) >= 3 /\ IsNumber(b.Args[3])) =>
                    /\ (n > N \/ N = 0) => b.err = "No history records found."
                    /\ (n <= 0 /\ N > 0) => b.err = "Invalid history record index"
              /\ fails =>
                    /\ b.pc = "done"
                    /\ b.historyFile = S_empty
                    /\ b.printed.msg = ""
                    /\ b.calls = << >>
                    /\ dir' = dir
                    /\ outFiles' = outFiles
                    /\ sent' = sent
    ]_vars

\* a replay of record 0 has ended with "Invalid history record index" in a
\* directory with two records
C25_Witness ==
  /\ proc["p1"].pc = "done"
  /\ proc["p1"].HistoryMode = S_replay
  /\ Len(proc["p1"].Args) = 3
  /\ proc["p1"].Args[3] = << "0" >>
  /\ Cardinality(NonHidden(dir)) = 2
  /\ proc["p1"].err = "Invalid history record index"

\* the invocations of p and q are of the same second, method and cleaned URL
SameNameParts(p, q) ==
  /\ proc[p].StartTime = proc[q].StartTime
  /\ proc[p].Request.Method = proc[q].Request.Method
  /\ cleanUrl(UrlString(proc[p].Request.URL)) = cleanUrl(UrlString(proc[q].Request.URL))

Requests(app) ==
  app.Mode = S_http \/ (app.Mode = S_history /\ app.HistoryMode = S_replay)

\* the request is built, the one call is made and answered, and the output
\* file, when one is asked for, holds the body of the response
ReadyToSave(app) ==
  /\ app.Request # NoRequest
  /\ app.calls = << app.Request >>
  /\ app.Response # NoResponse
  /\ app.err = "" /\ ~app.panic
  /\ app.OutputFilePath # S_empty =>
       /\ app.OutputFilePath \in DOMAIN outFiles
       /\ outFiles[app.OutputFilePath] = app.Response.Body

\* C24: the history record is made only when the request was built, the
\* call answered and the output file written; an invocation that fails
\* before that ends with its error and without a history file; a history
\* write that fails ends the invocation with an error and undoes neither
\* the call nor the output file.
C24_RecordAfterSuccess ==
  [][ \A p \in Procs :
        LET a == proc[p]
            b == proc'[p]
        IN  /\ a.pc \in { "save", "write" } => ReadyToSave(a)
            /\ dir' # dir => \E q \in Procs : proc[q].pc \in { "save", "write" }
            /\ (a.pc = "idle" /\ b.pc = "send") => /\ b.Request # NoRequest
                                                    /\ b.calls = << >>
            /\ (a.pc \in { "idle", "send" } /\ b.pc = "done" /\ Requests(b)) =>
                 /\ b.err # "" \/ b.panic
                 /\ b.fileName = S_empty
                 /\ dir' = dir
            /\ (a.pc \in { "save", "write" } /\ b.pc = "done" /\ b.err # "") =>
                 /\ b.calls = a.calls
                 /\ b.Response = a.Response
                 /\ outFiles' = outFiles
                 /\ sent' = sent
    ]_vars

\* a request with an output file has ended: the file holds the body and the
\* history holds the record
C24_Witness ==
  /\ proc["p1"].pc = "done"
  /\ proc["p1"].Mode = S_http
  /\ proc["p1"].err = ""
  /\ proc["p1"].OutputFilePath # S_empty
  /\ proc["p1"].OutputFilePath \in DOMAIN outFiles
  /\ outFiles[proc["p1"].OutputFilePath] = proc["p1"].Response.Body
  /\ proc["p1"].fileName \in DOMAIN dir
  /\ dir[proc["p1"].fileName] = JsonFile(proc["p1"].jsonBytes)

\* C30: an invocation of history list or history detail, whatever its
\* arguments and its outcome, ends at once without a network call and
\* leaves the history directory, file by file, as it was.
C30_ListAndDetailReadOnly ==
  [][ \A p \in Procs :
        (/\ proc[p].pc = "idle"
         /\ proc'[p].pc # "idle"
         /\ proc'[p].Mode = S_history
         /\ proc'[p].HistoryMode \in { S_list, S_detail }) =>
           /\ proc'[p].pc = "done"
           /\ proc'[p].calls = << >>
           /\ proc'[p].Request = NoRequest
           /\ sent' = sent
           /\ dir' = dir
           /\ outFiles' = outFiles
    ]_vars

\* history detail has shown a record of a directory that holds one
C30_Witness ==
  /\ proc["p1"].pc = "done"
  /\ proc["p1"].Mode = S_history
  /\ proc["p1"].HistoryMode = S_detail
  /\ proc["p1"].err = ""
  /\ proc["p1"].printed.msg = "detail"
  /\ proc["p1"].historyFile \in DOMAIN dir
  /\ dir[proc["p1"].historyFile].kind = "json"
  /\ proc["p1"].calls = << >>

\* the whole listing of directory d: no skip, no limit, no filter
FullListing(d) == getHistoryRecords(d, 0, 0, S_empty, FALSE)

\* the entry that index n addresses in directory d, as loadAppFromHistory
\* looks it up (skip n - 1, limit 1); the empty sequence when there is none
Addressed(d, n) ==
  LET res == getHistoryRecords(d, n - 1, 1, S_empty, FALSE)
  IN  IF Len(res.items) = 1 /\ res.itemIndexes[1] = n THEN res.items[1] ELSE << >>

\* C29: when a request or a replay adds a file whose name is greater than
\* every name of the directory, the new file has display index 1 and every
\* entry listed before has its display index raised by one, in the same
\* order; index n + 1 then addresses what index n addressed.
C29_NewRecordShiftsIndexes ==
  [][ \A p \in Procs :
        (/\ proc[p].pc = "save" /\ proc'[p].pc = "write"
         /\ proc'[p].fileName \notin DOMAIN dir
         /\ \A m \in DOMAIN dir : StrLess(m, proc'[p].fileName)) =>
           LET old == FullListing(dir)
               new == FullListing(dir')
           IN  /\ new.items = << proc'[p].fileName >> \o old.items
               /\ new.itemIndexes[1] = 1
               /\ \A j \in 1..Len(old.items) :
                     new.itemIndexes[j + 1] = old.itemIndexes[j] + 1
               /\ Addressed(dir', 1) = proc'[p].fileName
               /\ \A n \in 1..Len(old.items) :
                     Addressed(dir', n + 1) = Addressed(dir, n)
    ]_vars

\* replay 1 has added a record above the one it replayed: the new record
\* is at index 1 and the replayed one at index 2
C29_Witness ==
  /\ proc["p1"].pc = "done"
  /\ proc["p1"].err = ""
  /\ proc["p1"].HistoryMode = S_replay
  /\ proc["p1"].HistoryRecordId = 1
  /\ proc["p1"].fileName \in DOMAIN dir
  /\ proc["p1"].historyFile \in DOMAIN dir
  /\ Cardinality(NonHidden(dir)) = 2
  /\ Rank(dir, proc["p1"].fileName) = 1
  /\ Rank(dir, proc["p1"].historyFile) = 2
  /\ Addressed(dir, 2) = proc["p1"].historyFile

====
